---- MODULE Spec2Model ----
(***************************************************************************)
(* A model of logerrors.c: the sliding-window statistics of log messages   *)
(* kept in shared memory by the emit_log hook (ingest), the background     *)
(* worker (rotation) and the SQL functions pg_log_errors_stats,            *)
(* pg_log_errors_reset and pg_slow_log_stats.                              *)
(*                                                                         *)
(* Every access to shared memory is one step.  A C array index i is the    *)
(* index i of a function over 0..n-1.  All counters stay far below 2^31 in *)
(* the explored runs, so uint32/int conversions do not change a value and  *)
(* mathematical integers give exactly the C results (including the         *)
(* unsigned expression of logerrors.c:432, whose wrap-around cancels).     *)
(***************************************************************************)
EXTENDS Integers, Sequences, FiniteSets, TLC

(***************************************************************************)
(* constants.h (included at logerrors.c:21, not part of the sources).      *)
(***************************************************************************)
\* the dimension of message_count[3], sum_in_buffer[3], total_count[3]
message_types_count == 3
\* the dimension of intervals[3][360] and the upper limit of the GUC
max_number_of_intervals == 360
\* elevel values that are counted, and their display names
message_types_codes == <<"WARNING", "ERROR", "FATAL">>
message_type_names == <<"WARNING", "ERROR", "FATAL">>
\* the reserved key of the fallback entry
not_known_error_code == "NOT_KNOWN_ERROR_CODE"
\* the registered sqlerrcodes, in registration order, and their names
error_codes == <<"42601", not_known_error_code>>
error_names == <<"ERRCODE_SYNTAX_ERROR", "NOT_KNOWN_ERROR">>
error_types_count == Len(error_codes)

\* sizeof(pg_atomic_uint32): a struct holding one volatile uint32
SizeofAtomicU32 == 4
\* MemSet(start, val, len) sets len BYTES; this is the number of whole
\* pg_atomic_uint32 slots that a MemSet of max_number_of_intervals bytes covers
MemSetSlots == max_number_of_intervals \div SizeofAtomicU32
\* the three low-order bytes of a little-endian uint32
LowBytes3 == 2^24

Types == 0 .. message_types_count - 1
Cats == 0 .. error_types_count - 1

(***************************************************************************)
(* Bounds of the explored runs.                                            *)
(***************************************************************************)
MaxHookCalls == 2
MaxHookCallsSeq == 2
MaxHookCallsBigRing == 1
MaxHookCallsRace == 1
MaxResets == 1
MaxStats == 1
MaxSlowStats == 1
MaxClock == 1
MaxHookCallsSlow == 3
MaxHookCallsRead == 1

Backends == {"b1", "b2"}

\* logerrors.interval (ms) and logerrors.intervals_count as set at startup
Configs == {[interval |-> 5000, intervals_count |-> n] : n \in {2, 3}}
ConfigsRace == {[interval |-> 5000, intervals_count |-> 2]}
ConfigsSeq == {[interval |-> 1000, intervals_count |-> 3],
               [interval |-> 2500, intervals_count |-> 2]}
ConfigsBigRing == {[interval |-> 5000, intervals_count |-> MemSetSlots + 1]}

\* the events handed to the hook: edata->elevel, ->sqlerrcode, ->message
\* (a message is a sequence of words, NoMessage a NULL pointer)
NoMessage == <<"(null)">>
\* the events of the interleaved runs: a registered and an unregistered code,
\* two counted types, a slow line with and without a counted type, and an
\* event that is neither
HookEvents ==
    {[elevel |-> "ERROR", sqlerrcode |-> "42601", message |-> <<"syntax", "error">>],
     [elevel |-> "ERROR", sqlerrcode |-> "22012", message |-> <<"duration:", "12", "ms">>],
     [elevel |-> "WARNING", sqlerrcode |-> "42601", message |-> <<"syntax", "error">>],
     [elevel |-> "LOG", sqlerrcode |-> "42601", message |-> <<"duration:", "12", "ms">>],
     [elevel |-> "LOG", sqlerrcode |-> "22012", message |-> NoMessage]}
\* the events of the sequential runs: those, and a third counted type
SeqEvents ==
    HookEvents \cup {[elevel |-> "FATAL", sqlerrcode |-> "22012", message |-> NoMessage]}
\* the events of the runs in which a reset races with the rotation
ResetRaceEvents ==
    {[elevel |-> "ERROR", sqlerrcode |-> "42601", message |-> <<"syntax", "error">>],
     [elevel |-> "LOG", sqlerrcode |-> "42601", message |-> <<"duration:", "12", "ms">>]}

\* the events of the runs about the slow-line counter: two slow lines (one of
\* a counted type) and a line that is not slow
SlowEvents ==
    {[elevel |-> "LOG", sqlerrcode |-> "42601", message |-> <<"duration:", "12", "ms">>],
     [elevel |-> "ERROR", sqlerrcode |-> "22012", message |-> <<"duration:", "12", "ms">>],
     [elevel |-> "ERROR", sqlerrcode |-> "42601", message |-> <<"syntax", "error">>]}

\* no event: the locals of a process that is not inside the hook
NoEvent == [elevel |-> "", sqlerrcode |-> "", message |-> NoMessage]

VARIABLES
    attached,       \* messages_info_hashtable and global_variables are not NULL
    guc,            \* the GUC variables interval and intervals_count
    shm,            \* the shared memory: the MessageInfo entries and GlobalInfo
    got_sigterm,    \* the worker's signal flag
    now,            \* GetCurrentTimestamp()
    wk,             \* the background worker: position and local variables
    bk,             \* the backends: position and local variables
    calls,          \* the number of calls made so far, per operation
    gh              \* history variables (what was recorded, folded, closed)

vars == <<attached, guc, shm, got_sigterm, now, wk, bk, calls, gh>>

(***************************************************************************)
(* Shared memory as the allocator hands it out: all bytes zero.            *)
(***************************************************************************)
ZeroShm(n) ==
    [message_count |-> [i \in Cats |-> [j \in Types |-> 0]],
     sum_in_buffer |-> [i \in Cats |-> [j \in Types |-> 0]],
     intervals |-> [i \in Cats |-> [j \in Types |-> [k \in 0 .. n - 1 |-> 0]]],
     interval |-> 0,
     intervals_count |-> 0,
     current_interval_index |-> 0,
     total_count |-> [j \in Types |-> 0],
     slow_count |-> 0,
     slow_reset_time |-> 0]

\* the local variables of a process; pc is its position
Local(pc) ==
    [pc |-> pc, op |-> "", ret |-> pc, edata |-> NoEvent, i |-> 0, j |-> 0,
     message_count |-> 0, elem |-> 0, prev_interval_index |-> 0,
     errors_in_long_interval |-> 0, rows |-> <<>>, err |-> ""]

ZeroGhost ==
    [sinceZero |-> [i \in Cats |-> [j \in Types |-> 0]],
     adds |-> [i \in Cats |-> [j \in Types |-> 0]],
     folded |-> [i \in Cats |-> [j \in Types |-> 0]],
     closed |-> [i \in Cats |-> [j \in Types |-> 0]],
     recent |-> [i \in Cats |-> [j \in Types |-> <<>>]],
     totalAdds |-> [j \in Types |-> 0],
     slowAdds |-> 0,
     ticked |-> FALSE]

(***************************************************************************)
(* Atomic primitives and helpers.                                          *)
(***************************************************************************)
pg_atomic_fetch_add_u32_lost(v, add) == add

pg_atomic_fetch_add_u32(v, add) == v + add

\* hash_search(messages_info_hashtable, &key, HASH_FIND, &found): the index
\* of the entry, or -1 when not found
NotFound == 0 - 1
hash_search(code) ==
    IF \E i \in Cats : error_codes[i + 1] = code
    THEN CHOOSE i \in Cats : error_codes[i + 1] = code
    ELSE NotFound

\* strstr(edata->message, "duration:") on a non-NULL message
strstr_duration(message) ==
    message # NoMessage /\ \E k \in 1 .. Len(message) : message[k] = "duration:"

RECURSIVE SeqSum(_)
SeqSum(q) == IF q = <<>> THEN 0 ELSE Head(q) + SeqSum(Tail(q))

RECURSIVE RingSum(_, _)
RingSum(ring, n) == IF n = 0 THEN 0 ELSE ring[n - 1] + RingSum(ring, n - 1)

(***************************************************************************)
(* logerrors_init (logerrors.c:110-132), one store per step.  It is called *)
(* by pgss_shmem_startup, by logerrors_main and by pg_log_errors_reset;    *)
(* l.ret is the position of the caller after the call.                     *)
(***************************************************************************)
\* MemSet(&(elem->intervals[j]), 0, max_number_of_intervals), line 122
MemSetIntervals(ring) ==
    [k \in DOMAIN ring |-> IF k < MemSetSlots THEN 0 ELSE ring[k]]

\* MemSet(&global_variables->total_count, 0, message_types_count), line 127:
\* the first message_types_count bytes, all of them in total_count[0]
MemSetTotalCount(total) ==
    [total EXCEPT ![0] = (total[0] \div LowBytes3) * LowBytes3]

\* the (i, j) after (l.i, l.j) in "for i { for j { } }", or "done"
NextInitCell(l) ==
    IF l.j + 1 < message_types_count THEN [i |-> l.i, j |-> l.j + 1, done |-> FALSE]
    ELSE IF l.i + 1 < error_types_count THEN [i |-> l.i + 1, j |-> 0, done |-> FALSE]
    ELSE [i |-> 0, j |-> 0, done |-> TRUE]

logerrors_init_step_keepindex(s, l, t) ==
    CASE l.pc = "init_count" ->
           [shm |-> [s EXCEPT !.message_count[l.i][l.j] = 0],
            loc |-> [l EXCEPT !.pc = "init_memset"]]
      [] l.pc = "init_memset" ->
           [shm |-> [s EXCEPT !.intervals[l.i][l.j] = MemSetIntervals(@)],
            loc |-> [l EXCEPT !.pc = "init_sum"]]
      [] l.pc = "init_sum" ->
           LET c == NextInitCell(l) IN
           [shm |-> [s EXCEPT !.sum_in_buffer[l.i][l.j] = 0],
            loc |-> [l EXCEPT !.i = c.i, !.j = c.j,
                              !.pc = IF c.done THEN "init_index" ELSE "init_count"]]
      [] l.pc = "init_index" ->
           [shm |-> s,
            loc |-> [l EXCEPT !.pc = "init_total_memset"]]
      [] l.pc = "init_total_memset" ->
           [shm |-> [s EXCEPT !.total_count = MemSetTotalCount(@)],
            loc |-> [l EXCEPT !.pc = "init_total", !.j = 0]]
      [] l.pc = "init_total" ->
           [shm |-> [s EXCEPT !.total_count[l.j] = 0],
            loc |-> IF l.j + 1 < message_types_count
                    THEN [l EXCEPT !.j = l.j + 1]
                    ELSE [l EXCEPT !.j = 0, !.pc = "init_slow_count"]]
      [] l.pc = "init_slow_count" ->
           [shm |-> [s EXCEPT !.slow_count = 0],
            loc |-> [l EXCEPT !.pc = "init_slow_time"]]
      [] l.pc = "init_slow_time" ->
           [shm |-> [s EXCEPT !.slow_reset_time = t],
            loc |-> [l EXCEPT !.pc = l.ret]]

logerrors_init_step(s, l, t) ==
    CASE l.pc = "init_count" ->      \* line 120 (and the name, line 121)
           [shm |-> [s EXCEPT !.message_count[l.i][l.j] = 0],
            loc |-> [l EXCEPT !.pc = "init_memset"]]
      [] l.pc = "init_memset" ->     \* line 122
           [shm |-> [s EXCEPT !.intervals[l.i][l.j] = MemSetIntervals(@)],
            loc |-> [l EXCEPT !.pc = "init_sum"]]
      [] l.pc = "init_sum" ->        \* line 123
           LET c == NextInitCell(l) IN
           [shm |-> [s EXCEPT !.sum_in_buffer[l.i][l.j] = 0],
            loc |-> [l EXCEPT !.i = c.i, !.j = c.j,
                              !.pc = IF c.done THEN "init_index" ELSE "init_count"]]
      [] l.pc = "init_index" ->      \* line 126
           [shm |-> [s EXCEPT !.current_interval_index = 0],
            loc |-> [l EXCEPT !.pc = "init_total_memset"]]
      [] l.pc = "init_total_memset" ->   \* line 127
           [shm |-> [s EXCEPT !.total_count = MemSetTotalCount(@)],
            loc |-> [l EXCEPT !.pc = "init_total", !.j = 0]]
      [] l.pc = "init_total" ->      \* lines 128-130
           [shm |-> [s EXCEPT !.total_count[l.j] = 0],
            loc |-> IF l.j + 1 < message_types_count
                    THEN [l EXCEPT !.j = l.j + 1]
                    ELSE [l EXCEPT !.j = 0, !.pc = "init_slow_count"]]
      [] l.pc = "init_slow_count" -> \* slow_log_info_init, line 106
           [shm |-> [s EXCEPT !.slow_count = 0],
            loc |-> [l EXCEPT !.pc = "init_slow_time"]]
      [] l.pc = "init_slow_time" ->  \* slow_log_info_init, line 107
           [shm |-> [s EXCEPT !.slow_reset_time = t],
            loc |-> [l EXCEPT !.pc = l.ret]]

InitPcs == {"init_count", "init_memset", "init_sum", "init_index",
            "init_total_memset", "init_total", "init_slow_count", "init_slow_time"}

(***************************************************************************)
(* logerrors_update_info (logerrors.c:134-162): the rotation.              *)
(***************************************************************************)
\* lines 151-153
NewSumInBuffer_noevict(sum, evicted, message_count) == sum + message_count

NewSumInBuffer(sum, evicted, message_count) == sum - evicted + message_count

\* line 161
NextIntervalIndex_stuck(index, n) == index

NextIntervalIndex_nowrap(index, n) == index + 1

NextIntervalIndex(index, n) == (index + 1) % n

\* the (i, j) after (l.i, l.j) in "for j { for i { } }", or "done"
NextUpdateCell(l) ==
    IF l.i + 1 < error_types_count THEN [i |-> l.i + 1, j |-> l.j, done |-> FALSE]
    ELSE IF l.j + 1 < message_types_count THEN [i |-> 0, j |-> l.j + 1, done |-> FALSE]
    ELSE [i |-> 0, j |-> 0, done |-> TRUE]

logerrors_update_info_step_totals(s, l) ==
    CASE l.pc = "upd_read" ->
           [shm |-> s,
            loc |-> [l EXCEPT !.message_count = s.message_count[l.i][l.j],
                              !.pc = "upd_sum"]]
      [] l.pc = "upd_sum" ->
           [shm |-> [s EXCEPT !.sum_in_buffer[l.i][l.j] =
                        NewSumInBuffer(@, s.intervals[l.i][l.j][s.current_interval_index],
                                       l.message_count)],
            loc |-> [l EXCEPT !.pc = "upd_write"]]
      [] l.pc = "upd_write" ->
           [shm |-> [s EXCEPT !.intervals[l.i][l.j][s.current_interval_index] =
                        l.message_count],
            loc |-> [l EXCEPT !.pc = "upd_zero"]]
      [] l.pc = "upd_zero" ->
           LET c == NextUpdateCell(l) IN
           [shm |-> [s EXCEPT !.message_count[l.i][l.j] = 0, !.total_count[l.j] = 0],
            loc |-> [l EXCEPT !.i = c.i, !.j = c.j, !.message_count = 0,
                              !.pc = IF c.done THEN "upd_index" ELSE "upd_read"]]
      [] l.pc = "upd_index" ->
           [shm |-> [s EXCEPT !.current_interval_index =
                        NextIntervalIndex(@, s.intervals_count)],
            loc |-> [l EXCEPT !.pc = "main_wait"]]

logerrors_update_info_step(s, l) ==
    CASE l.pc = "upd_read" ->        \* line 150
           [shm |-> s,
            loc |-> [l EXCEPT !.message_count = s.message_count[l.i][l.j],
                              !.pc = "upd_sum"]]
      [] l.pc = "upd_sum" ->         \* lines 151-153
           [shm |-> [s EXCEPT !.sum_in_buffer[l.i][l.j] =
                        NewSumInBuffer(@, s.intervals[l.i][l.j][s.current_interval_index],
                                       l.message_count)],
            loc |-> [l EXCEPT !.pc = "upd_write"]]
      [] l.pc = "upd_write" ->       \* lines 154-155
           [shm |-> [s EXCEPT !.intervals[l.i][l.j][s.current_interval_index] =
                        l.message_count],
            loc |-> [l EXCEPT !.pc = "upd_zero"]]
      [] l.pc = "upd_zero" ->        \* line 156
           LET c == NextUpdateCell(l) IN
           [shm |-> [s EXCEPT !.message_count[l.i][l.j] = 0],
            loc |-> [l EXCEPT !.i = c.i, !.j = c.j, !.message_count = 0,
                              !.pc = IF c.done THEN "upd_index" ELSE "upd_read"]]
      [] l.pc = "upd_index" ->       \* lines 160-161
           [shm |-> [s EXCEPT !.current_interval_index =
                        NextIntervalIndex(@, s.intervals_count)],
            loc |-> [l EXCEPT !.pc = "main_wait"]]

UpdatePcs == {"upd_read", "upd_sum", "upd_write", "upd_zero", "upd_index"}

(***************************************************************************)
(* logerrors_emit_log_hook (logerrors.c:202-235).                          *)
(***************************************************************************)
\* the j with edata->elevel == message_types_codes[j] (line 213), or NotFound
MatchedType(elevel) ==
    IF \E j \in Types : message_types_codes[j + 1] = elevel
    THEN CHOOSE j \in Types : message_types_codes[j + 1] = elevel
    ELSE NotFound

\* lines 216-222: the entry of the code, or the fallback entry
ResolveEntry_nofallback(sqlerrcode) ==
    IF hash_search(sqlerrcode) # NotFound THEN hash_search(sqlerrcode) ELSE 0

ResolveEntry(sqlerrcode) ==
    IF hash_search(sqlerrcode) # NotFound
    THEN hash_search(sqlerrcode)
    ELSE hash_search(not_known_error_code)

\* line 226
IsSlowLine(edata) == strstr_duration(edata.message)

logerrors_emit_log_hook_begin_countedonly(l, edata, ready) ==
    LET j == MatchedType(edata.elevel) IN
    IF ~ready THEN [Local("idle") EXCEPT !.op = "hook"]
    ELSE IF j # NotFound
    THEN [Local("hook_count") EXCEPT !.op = "hook", !.ret = "idle", !.edata = edata,
                                     !.j = j, !.elem = ResolveEntry(edata.sqlerrcode)]
    ELSE [Local("idle") EXCEPT !.op = "hook"]

\* the position after the guard of line 209 and the tests of lines 213, 226
logerrors_emit_log_hook_begin(l, edata, ready) ==
    LET j == MatchedType(edata.elevel) IN
    IF ~ready THEN [Local("idle") EXCEPT !.op = "hook"]
    ELSE IF j # NotFound
    THEN [Local("hook_count") EXCEPT !.op = "hook", !.ret = "idle", !.edata = edata,
                                     !.j = j, !.elem = ResolveEntry(edata.sqlerrcode)]
    ELSE IF IsSlowLine(edata)
    THEN [Local("hook_slow") EXCEPT !.op = "hook", !.ret = "idle", !.edata = edata]
    ELSE [Local("idle") EXCEPT !.op = "hook"]

logerrors_emit_log_hook_step_summing(s, l) ==
    CASE l.pc = "hook_count" ->
           [shm |-> [s EXCEPT !.message_count[l.elem][l.j] =
                        pg_atomic_fetch_add_u32(@, 1),
                              !.sum_in_buffer[l.elem][l.j] = @ + 1],
            loc |-> [l EXCEPT !.pc = "hook_total"]]
      [] l.pc = "hook_total" ->
           [shm |-> [s EXCEPT !.total_count[l.j] = pg_atomic_fetch_add_u32(@, 1)],
            loc |-> IF IsSlowLine(l.edata)
                    THEN [l EXCEPT !.pc = "hook_slow"]
                    ELSE [Local("idle") EXCEPT !.op = "hook"]]
      [] l.pc = "hook_slow" ->
           [shm |-> [s EXCEPT !.slow_count = pg_atomic_fetch_add_u32(@, 1)],
            loc |-> [Local("idle") EXCEPT !.op = "hook"]]

logerrors_emit_log_hook_step(s, l) ==
    CASE l.pc = "hook_count" ->      \* line 223
           [shm |-> [s EXCEPT !.message_count[l.elem][l.j] =
                        pg_atomic_fetch_add_u32(@, 1)],
            loc |-> [l EXCEPT !.pc = "hook_total"]]
      [] l.pc = "hook_total" ->      \* line 224, then the test of line 226
           [shm |-> [s EXCEPT !.total_count[l.j] = pg_atomic_fetch_add_u32(@, 1)],
            loc |-> IF IsSlowLine(l.edata)
                    THEN [l EXCEPT !.pc = "hook_slow"]
                    ELSE [Local("idle") EXCEPT !.op = "hook"]]
      [] l.pc = "hook_slow" ->       \* line 228
           [shm |-> [s EXCEPT !.slow_count = pg_atomic_fetch_add_u32(@, 1)],
            loc |-> [Local("idle") EXCEPT !.op = "hook"]]

HookPcs == {"hook_count", "hook_total", "hook_slow"}

(***************************************************************************)
(* pg_log_errors_stats (logerrors.c:329-451).  A row is the tuple put into *)
(* the tuplestore: time_interval (NULL for a total row), type, message,    *)
(* count.                                                                  *)
(***************************************************************************)
NotInitialized == "ERRCODE_OBJECT_NOT_IN_PREREQUISITE_STATE"

\* lines 386-399
TotalRow(j, count) ==
    [time_interval_null |-> TRUE, time_interval |-> 0,
     type |-> message_type_names[j + 1], message |-> "TOTAL", count |-> count]

\* lines 403-438
IntervalRow(seconds, j, i, count) ==
    [time_interval_null |-> FALSE, time_interval |-> seconds,
     type |-> message_type_names[j + 1], message |-> error_names[i + 1],
     count |-> count]

\* line 417
ShortInterval(interval) == interval \div 1000

\* line 418
LongInterval(interval, n) == ShortInterval(interval) * n

\* lines 432-433
PrevIntervalIndex_current(index, n) == index

PrevIntervalIndex(index, n) == (index - 1 + n) % n

\* lines 440-445: the rows of one (type, entry) pair
EmitRows_shortfirst(s, j, i, long, short) ==
    (IF short > 0
     THEN <<IntervalRow(ShortInterval(s.interval), j, i, short)>> ELSE <<>>)
    \o (IF long > 0
        THEN <<IntervalRow(LongInterval(s.interval, s.intervals_count), j, i, long)>>
        ELSE <<>>)

EmitRows(s, j, i, long, short) ==
    (IF long > 0
     THEN <<IntervalRow(LongInterval(s.interval, s.intervals_count), j, i, long)>>
     ELSE <<>>)
    \o (IF short > 0
        THEN <<IntervalRow(ShortInterval(s.interval), j, i, short)>> ELSE <<>>)

\* lines 353-357: the call, up to the loop of line 383
pg_log_errors_stats_begin(l, ready) ==
    IF ~ready THEN [Local("idle") EXCEPT !.op = "stats", !.err = NotInitialized]
    ELSE [Local("st_total") EXCEPT !.op = "stats", !.ret = "idle"]

pg_log_errors_stats_step_draining(s, l) ==
    CASE l.pc = "st_total" ->
           [shm |-> s,
            loc |-> [l EXCEPT !.rows = Append(@, TotalRow(l.j, s.total_count[l.j])),
                              !.i = 0, !.pc = "st_index"]]
      [] l.pc = "st_index" ->
           [shm |-> s,
            loc |-> [l EXCEPT !.prev_interval_index =
                                  PrevIntervalIndex(s.current_interval_index,
                                                    s.intervals_count),
                              !.pc = "st_long"]]
      [] l.pc = "st_long" ->
           [shm |-> [s EXCEPT !.sum_in_buffer[l.i][l.j] = 0],
            loc |-> [l EXCEPT !.errors_in_long_interval = s.sum_in_buffer[l.i][l.j],
                              !.pc = "st_short"]]
      [] l.pc = "st_short" ->
           LET short == s.intervals[l.i][l.j][l.prev_interval_index]
               rows == l.rows \o EmitRows(s, l.j, l.i, l.errors_in_long_interval, short)
               clr == [l EXCEPT !.rows = rows, !.prev_interval_index = 0,
                                !.errors_in_long_interval = 0] IN
           [shm |-> s,
            loc |-> IF l.i + 1 < error_types_count
                    THEN [clr EXCEPT !.i = l.i + 1, !.pc = "st_index"]
                    ELSE IF l.j + 1 < message_types_count
                    THEN [clr EXCEPT !.i = 0, !.j = l.j + 1, !.pc = "st_total"]
                    ELSE [clr EXCEPT !.i = 0, !.j = 0, !.pc = "idle"]]

pg_log_errors_stats_step(s, l) ==
    CASE l.pc = "st_total" ->        \* lines 386-399
           [shm |-> s,
            loc |-> [l EXCEPT !.rows = Append(@, TotalRow(l.j, s.total_count[l.j])),
                              !.i = 0, !.pc = "st_index"]]
      [] l.pc = "st_index" ->        \* lines 432-433
           [shm |-> s,
            loc |-> [l EXCEPT !.prev_interval_index =
                                  PrevIntervalIndex(s.current_interval_index,
                                                    s.intervals_count),
                              !.pc = "st_long"]]
      [] l.pc = "st_long" ->         \* line 435
           [shm |-> s,
            loc |-> [l EXCEPT !.errors_in_long_interval = s.sum_in_buffer[l.i][l.j],
                              !.pc = "st_short"]]
      [] l.pc = "st_short" ->        \* lines 436-445
           LET short == s.intervals[l.i][l.j][l.prev_interval_index]
               rows == l.rows \o EmitRows(s, l.j, l.i, l.errors_in_long_interval, short)
               clr == [l EXCEPT !.rows = rows, !.prev_interval_index = 0,
                                !.errors_in_long_interval = 0] IN
           [shm |-> s,
            loc |-> IF l.i + 1 < error_types_count
                    THEN [clr EXCEPT !.i = l.i + 1, !.pc = "st_index"]
                    ELSE IF l.j + 1 < message_types_count
                    THEN [clr EXCEPT !.i = 0, !.j = l.j + 1, !.pc = "st_total"]
                    ELSE [clr EXCEPT !.i = 0, !.j = 0, !.pc = "idle"]]

StatsPcs == {"st_total", "st_index", "st_long", "st_short"}

(***************************************************************************)
(* pg_log_errors_reset (logerrors.c:455-467).                              *)
(***************************************************************************)
pg_log_errors_reset_begin_unchecked(l, ready) ==
    [Local("init_count") EXCEPT !.op = "reset", !.ret = "idle"]

pg_log_errors_reset_begin(l, ready) ==
    IF ~ready THEN [Local("idle") EXCEPT !.op = "reset", !.err = NotInitialized]
    ELSE [Local("init_count") EXCEPT !.op = "reset", !.ret = "idle"]

(***************************************************************************)
(* pg_slow_log_stats (logerrors.c:471-525).                                *)
(***************************************************************************)
pg_slow_log_stats_begin(l, ready) ==
    IF ~ready THEN [Local("idle") EXCEPT !.op = "slow"]     \* lines 485-487
    ELSE [Local("ss_count") EXCEPT !.op = "slow", !.ret = "idle"]

pg_slow_log_stats_step_total(s, l) ==
    CASE l.pc = "ss_count" ->
           [shm |-> s,
            loc |-> [l EXCEPT !.rows = <<[slow_count |-> s.total_count[1],
                                          reset_time |-> 0]>>,
                              !.pc = "ss_time"]]
      [] l.pc = "ss_time" ->
           [shm |-> s,
            loc |-> [l EXCEPT !.rows[1].reset_time = s.slow_reset_time,
                              !.pc = "idle"]]

pg_slow_log_stats_step(s, l) ==
    CASE l.pc = "ss_count" ->        \* line 518
           [shm |-> s,
            loc |-> [l EXCEPT !.rows = <<[slow_count |-> s.slow_count,
                                          reset_time |-> 0]>>,
                              !.pc = "ss_time"]]
      [] l.pc = "ss_time" ->         \* lines 519-521
           [shm |-> s,
            loc |-> [l EXCEPT !.rows[1].reset_time = s.slow_reset_time,
                              !.pc = "idle"]]

SlowPcs == {"ss_count", "ss_time"}

(***************************************************************************)
(* One step of a process at position l.pc, and the history it leaves.      *)
(***************************************************************************)
RestPcs == {"idle", "unstarted", "main_wait", "exited"}

Step(s, l, t) ==
    CASE l.pc \in InitPcs -> logerrors_init_step(s, l, t)
      [] l.pc \in UpdatePcs -> logerrors_update_info_step(s, l)
      [] l.pc \in HookPcs -> logerrors_emit_log_hook_step(s, l)
      [] l.pc \in StatsPcs -> pg_log_errors_stats_step(s, l)
      [] l.pc \in SlowPcs -> pg_slow_log_stats_step(s, l)

\* the last n elements of q
LastN(q, n) == IF Len(q) <= n THEN q ELSE SubSeq(q, Len(q) - n + 1, Len(q))

\* History variables: sinceZero counts the increments of a current bucket
\* since it was last set to zero, adds those since it was last initialized,
\* folded sums the values a rotation stored into the ring, recent lists the
\* last intervals_count of them, closed is sinceZero of the bucket closed by
\* the last rotation, ticked says a rotation completed since the last
\* initialization.
GhostStep(g, s, l) ==
    CASE l.pc = "hook_count" ->
           [g EXCEPT !.sinceZero[l.elem][l.j] = @ + 1, !.adds[l.elem][l.j] = @ + 1]
      [] l.pc = "hook_total" -> [g EXCEPT !.totalAdds[l.j] = @ + 1]
      [] l.pc = "hook_slow" -> [g EXCEPT !.slowAdds = @ + 1]
      [] l.pc = "upd_write" ->
           [g EXCEPT !.folded[l.i][l.j] = @ + l.message_count,
                     !.recent[l.i][l.j] =
                         LastN(Append(@, l.message_count), s.intervals_count)]
      [] l.pc = "upd_zero" ->
           [g EXCEPT !.closed[l.i][l.j] = g.sinceZero[l.i][l.j],
                     !.sinceZero[l.i][l.j] = 0]
      [] l.pc = "upd_index" -> [g EXCEPT !.ticked = TRUE]
      [] l.pc = "init_count" ->
           [g EXCEPT !.sinceZero[l.i][l.j] = 0, !.adds[l.i][l.j] = 0,
                     !.folded[l.i][l.j] = 0, !.closed[l.i][l.j] = 0]
      [] l.pc = "init_memset" -> [g EXCEPT !.recent[l.i][l.j] = <<>>]
      [] l.pc = "init_index" -> [g EXCEPT !.ticked = FALSE]
      [] l.pc = "init_total_memset" ->
           [g EXCEPT !.totalAdds[0] = IF s.total_count[0] < LowBytes3 THEN 0 ELSE @]
      [] l.pc = "init_total" -> [g EXCEPT !.totalAdds[l.j] = 0]
      [] l.pc = "init_slow_count" -> [g EXCEPT !.slowAdds = 0]
      [] OTHER -> g

\* a call run to its end with nothing else running
RECURSIVE Run(_, _, _, _)
Run(s, l, g, t) ==
    IF l.pc \in RestPcs THEN [shm |-> s, loc |-> l, gh |-> g]
    ELSE LET r == Step(s, l, t) IN Run(r.shm, r.loc, GhostStep(g, s, l), t)

(***************************************************************************)
(* The initial state: the library is loaded, the shared memory segment is  *)
(* fresh (zero bytes) and the shared-memory startup hook has not run.      *)
(***************************************************************************)
InitWith(configs) ==
    /\ attached = FALSE
    /\ guc \in configs
    /\ shm = ZeroShm(guc.intervals_count)
    /\ got_sigterm = FALSE
    /\ now = 0
    /\ wk = Local("unstarted")
    /\ bk = [p \in Backends |-> Local("idle")]
    /\ calls = [hook |-> 0, reset |-> 0, stats |-> 0, slow |-> 0]
    /\ gh = ZeroGhost

\* global_variables_init, lines 96-101
global_variables_init(s, g) ==
    [s EXCEPT !.intervals_count = g.intervals_count, !.interval = g.interval]

\* pgss_shmem_startup, lines 303-325, in the postmaster (IsUnderPostmaster is
\* false there) before any other process exists
pgss_shmem_startup ==
    /\ ~attached
    /\ \A p \in Backends : bk[p].pc = "idle"
    /\ attached' = TRUE
    /\ LET r == Run(global_variables_init(shm, guc),
                    [Local("init_count") EXCEPT !.ret = "idle"], gh, now) IN
       /\ shm' = r.shm
       /\ gh' = r.gh
    /\ UNCHANGED <<guc, got_sigterm, now, wk, bk, calls>>

\* time passes
ClockAdvance ==
    /\ now < MaxClock
    /\ now' = now + 1
    /\ UNCHANGED <<attached, guc, shm, got_sigterm, wk, bk, calls, gh>>

(***************************************************************************)
(* The background worker, logerrors_main (lines 164-199).                  *)
(***************************************************************************)
\* the postmaster starts the worker; lines 168-173, up to logerrors_init
WorkerStart ==
    /\ attached
    /\ wk.pc = "unstarted"
    /\ wk' = [Local("init_count") EXCEPT !.op = "main", !.ret = "main_wait"]
    /\ UNCHANGED <<attached, guc, shm, got_sigterm, now, bk, calls, gh>>

WorkerWake_deaf ==
    /\ wk.pc = "main_wait"
    /\ wk' = [Local("upd_read") EXCEPT !.op = "main", !.ret = "main_wait"]
    /\ UNCHANGED <<attached, guc, shm, got_sigterm, now, bk, calls, gh>>

\* WaitLatch returns (lines 174-194): exit on SIGTERM, else the rotation
WorkerWake ==
    /\ wk.pc = "main_wait"
    /\ wk' = IF got_sigterm THEN [Local("exited") EXCEPT !.op = "main"]
             ELSE [Local("upd_read") EXCEPT !.op = "main", !.ret = "main_wait"]
    /\ UNCHANGED <<attached, guc, shm, got_sigterm, now, bk, calls, gh>>

WorkerStep ==
    /\ wk.pc \notin RestPcs
    /\ LET r == Step(shm, wk, now) IN
       /\ shm' = r.shm
       /\ wk' = r.loc
    /\ gh' = GhostStep(gh, shm, wk)
    /\ UNCHANGED <<attached, guc, got_sigterm, now, bk, calls>>

\* logerrors_sigterm, lines 84-92
logerrors_sigterm ==
    /\ wk.pc \notin {"unstarted", "exited"}
    /\ ~got_sigterm
    /\ got_sigterm' = TRUE
    /\ UNCHANGED <<attached, guc, shm, now, wk, bk, calls, gh>>

(***************************************************************************)
(* The backends: each call is entered when the backend is idle.            *)
(***************************************************************************)
HookCall(p, edata, max) ==
    /\ bk[p].pc = "idle"
    /\ calls.hook < max
    /\ bk' = [bk EXCEPT ![p] = logerrors_emit_log_hook_begin(bk[p], edata, attached)]
    /\ calls' = [calls EXCEPT !.hook = @ + 1]
    /\ UNCHANGED <<attached, guc, shm, got_sigterm, now, wk, gh>>

ResetCall(p) ==
    /\ bk[p].pc = "idle"
    /\ calls.reset < MaxResets
    /\ bk' = [bk EXCEPT ![p] = pg_log_errors_reset_begin(bk[p], attached)]
    /\ calls' = [calls EXCEPT !.reset = @ + 1]
    /\ UNCHANGED <<attached, guc, shm, got_sigterm, now, wk, gh>>

StatsCall(p) ==
    /\ bk[p].pc = "idle"
    /\ calls.stats < MaxStats
    /\ bk' = [bk EXCEPT ![p] = pg_log_errors_stats_begin(bk[p], attached)]
    /\ calls' = [calls EXCEPT !.stats = @ + 1]
    /\ UNCHANGED <<attached, guc, shm, got_sigterm, now, wk, gh>>

SlowStatsCall(p) ==
    /\ bk[p].pc = "idle"
    /\ calls.slow < MaxSlowStats
    /\ bk' = [bk EXCEPT ![p] = pg_slow_log_stats_begin(bk[p], attached)]
    /\ calls' = [calls EXCEPT !.slow = @ + 1]
    /\ UNCHANGED <<attached, guc, shm, got_sigterm, now, wk, gh>>

BackendStep(p) ==
    /\ bk[p].pc \notin RestPcs
    /\ LET r == Step(shm, bk[p], now) IN
       /\ shm' = r.shm
       /\ bk' = [bk EXCEPT ![p] = r.loc]
    /\ gh' = GhostStep(gh, shm, bk[p])
    /\ UNCHANGED <<attached, guc, got_sigterm, now, wk, calls>>

(***************************************************************************)
(* Spec: the worker and the backends' hook calls interleaved step by step; *)
(* nobody calls pg_log_errors_reset.                                       *)
(***************************************************************************)
Init == InitWith(Configs)

HookCalls == \E p \in Backends, edata \in HookEvents : HookCall(p, edata, MaxHookCalls)

BackendSteps == \E p \in Backends : BackendStep(p)

Next ==
    \/ pgss_shmem_startup
    \/ WorkerStart
    \/ WorkerWake
    \/ WorkerStep
    \/ HookCalls
    \/ BackendSteps

Spec == Init /\ [][Next]_vars

(***************************************************************************)
(* SpecRace: as Spec, and one backend calls pg_log_errors_reset.           *)
(***************************************************************************)
InitRace == InitWith(ConfigsRace)

HookCallsRace == \E edata \in ResetRaceEvents : HookCall("b1", edata, MaxHookCallsRace)

ResetCalls == ResetCall("b2")

NextRace ==
    \/ pgss_shmem_startup
    \/ WorkerStart
    \/ WorkerWake
    \/ WorkerStep
    \/ HookCallsRace
    \/ ResetCalls
    \/ BackendSteps

SpecRace == InitRace /\ [][NextRace]_vars

(***************************************************************************)
(* SpecSeq: sequential execution.  Every call runs to its end before the   *)
(* next one is made; the calls come from one session, which takes the      *)
(* result of a call (ReturnSeq) before anything else happens.              *)
(***************************************************************************)
Session == "b1"

SeqReady == bk[Session] = Local("idle")

\* the call entered at l0, run to its end
CallSeq(l0) ==
    LET r == Run(shm, l0, gh, now) IN
    /\ SeqReady
    /\ shm' = r.shm
    /\ bk' = [bk EXCEPT ![Session] = r.loc]
    /\ gh' = r.gh

HookSeq(edata, max) ==
    /\ calls.hook < max
    /\ CallSeq(logerrors_emit_log_hook_begin(bk[Session], edata, attached))
    /\ calls' = [calls EXCEPT !.hook = @ + 1]
    /\ UNCHANGED <<attached, guc, got_sigterm, now, wk>>

ResetSeq ==
    /\ calls.reset < MaxResets
    /\ CallSeq(pg_log_errors_reset_begin(bk[Session], attached))
    /\ calls' = [calls EXCEPT !.reset = @ + 1]
    /\ UNCHANGED <<attached, guc, got_sigterm, now, wk>>

StatsSeq ==
    /\ CallSeq(pg_log_errors_stats_begin(bk[Session], attached))
    /\ UNCHANGED <<attached, guc, got_sigterm, now, wk, calls>>

SlowStatsSeq ==
    /\ CallSeq(pg_slow_log_stats_begin(bk[Session], attached))
    /\ UNCHANGED <<attached, guc, got_sigterm, now, wk, calls>>

\* the session has taken the result of its call
ReturnSeq ==
    /\ ~SeqReady
    /\ bk' = [bk EXCEPT ![Session] = Local("idle")]
    /\ UNCHANGED <<attached, guc, shm, got_sigterm, now, wk, calls, gh>>

\* the worker starts and runs logerrors_init (line 173)
WorkerStartSeq ==
    /\ SeqReady
    /\ attached
    /\ wk.pc = "unstarted"
    /\ LET r == Run(shm, [Local("init_count") EXCEPT !.op = "main", !.ret = "main_wait"],
                    gh, now) IN
       /\ shm' = r.shm
       /\ wk' = r.loc
       /\ gh' = r.gh
    /\ UNCHANGED <<attached, guc, got_sigterm, now, bk, calls>>

\* one pass of the worker's loop: the rotation, or the exit on SIGTERM
TickSeq ==
    /\ SeqReady
    /\ wk.pc = "main_wait"
    /\ LET l0 == IF got_sigterm THEN [Local("exited") EXCEPT !.op = "main"]
                 ELSE [Local("upd_read") EXCEPT !.op = "main", !.ret = "main_wait"]
           r == Run(shm, l0, gh, now) IN
       /\ shm' = r.shm
       /\ wk' = r.loc
       /\ gh' = r.gh
    /\ UNCHANGED <<attached, guc, got_sigterm, now, bk, calls>>

StartupSeq == SeqReady /\ pgss_shmem_startup

InitSeq == InitWith(ConfigsSeq)

HookSeqs == \E edata \in SeqEvents : HookSeq(edata, MaxHookCallsSeq)

NextSeq ==
    \/ StartupSeq
    \/ WorkerStartSeq
    \/ TickSeq
    \/ HookSeqs
    \/ ResetSeq
    \/ StatsSeq
    \/ SlowStatsSeq
    \/ ReturnSeq

SpecSeq == InitSeq /\ [][NextSeq]_vars

(***************************************************************************)
(* SpecBigRing: sequential execution with a ring longer than MemSetSlots.  *)
(***************************************************************************)
InitBigRing == InitWith(ConfigsBigRing)

HookSeqsBigRing == \E edata \in HookEvents : HookSeq(edata, MaxHookCallsBigRing)

NextBigRing ==
    \/ StartupSeq
    \/ WorkerStartSeq
    \/ TickSeq
    \/ HookSeqsBigRing
    \/ ResetSeq
    \/ StatsSeq
    \/ ReturnSeq

SpecBigRing == InitBigRing /\ [][NextBigRing]_vars

(***************************************************************************)
(* SpecSlow: sequential execution with a clock, for the slow-line counter.  *)
(***************************************************************************)
ClockAdvanceSeq == SeqReady /\ ClockAdvance

HookSeqsSlow == \E edata \in SlowEvents : HookSeq(edata, MaxHookCallsSlow)

NextSlow ==
    \/ StartupSeq
    \/ WorkerStartSeq
    \/ TickSeq
    \/ HookSeqsSlow
    \/ ResetSeq
    \/ SlowStatsSeq
    \/ ReturnSeq
    \/ ClockAdvanceSeq

SpecSlow == InitRace /\ [][NextSlow]_vars

(***************************************************************************)
(* SpecRead: the worker, one backend's hook calls and another backend's    *)
(* pg_log_errors_stats and pg_slow_log_stats calls, interleaved step by    *)
(* step; nobody calls pg_log_errors_reset.                                 *)
(***************************************************************************)
HookCallsRead == \E edata \in ResetRaceEvents : HookCall("b1", edata, MaxHookCallsRead)

StatsCalls == StatsCall("b2")

SlowStatsCalls == SlowStatsCall("b2")

NextRead ==
    \/ pgss_shmem_startup
    \/ WorkerStart
    \/ WorkerWake
    \/ WorkerStep
    \/ HookCallsRead
    \/ StatsCalls
    \/ SlowStatsCalls
    \/ BackendSteps

SpecRead == InitRace /\ [][NextRead]_vars

(***************************************************************************)
(* SpecTerm: the worker, one backend's hook calls and the delivery of      *)
(* SIGTERM to the worker.  The worker is a process of its own: it is       *)
(* scheduled (every step it can take is eventually taken), and WaitLatch   *)
(* returns at the latest after the timeout (eventually the loop wakes).    *)
(***************************************************************************)
NextTerm ==
    \/ pgss_shmem_startup
    \/ WorkerStart
    \/ WorkerWake
    \/ WorkerStep
    \/ logerrors_sigterm
    \/ HookCallsRace
    \/ BackendSteps

SpecTerm ==
    /\ InitRace
    /\ [][NextTerm]_vars
    /\ WF_vars(WorkerWake)
    /\ WF_vars(WorkerStep)

(***************************************************************************)
(* The claims.                                                             *)
(***************************************************************************)
AtRest(l) == l.pc \in RestPcs

RingLength == guc.intervals_count

\* C1: with no reset, whenever no rotation is in progress, sum_in_buffer of
\* every entry and type equals the sum of its ring slots 0 .. N-1.
C1_RollingSumInvariant ==
    AtRest(wk) =>
        \A i \in Cats, j \in Types :
            shm.sum_in_buffer[i][j] = RingSum(shm.intervals[i][j], RingLength)

\* C1 witness: a rotation has completed, a ring holds a folded bucket and a
\* later event is waiting in the open bucket.
C1_Witness ==
    /\ wk.pc = "main_wait"
    /\ gh.ticked
    /\ \E i \in Cats, j \in Types :
          /\ shm.sum_in_buffer[i][j] > 0
          /\ shm.message_count[i][j] > 0

\* C2 (the claim as stated): with no reset, whenever no rotation is in
\* progress, every increment of a current bucket is either in a value that a
\* rotation folded into the ring or in the open bucket; none is lost.
C2_NoIncrementLostByTick ==
    AtRest(wk) =>
        \A i \in Cats, j \in Types :
            gh.adds[i][j] = gh.folded[i][j] + shm.message_count[i][j]

\* C5: between two zeroings of a current bucket (no rotation, no reset) the
\* bucket holds exactly the number of increments made, however the hook calls
\* interleave; the same for total_count.
C5_NoLostIncrements ==
    /\ \A i \in Cats, j \in Types : shm.message_count[i][j] = gh.sinceZero[i][j]
    /\ \A j \in Types : shm.total_count[j] = gh.totalAdds[j]

\* C5 witness: two backends are inside the hook at once, both have added to
\* the same bucket and neither has returned.
C5_Witness ==
    /\ \A p \in Backends : bk[p].pc = "hook_total"
    /\ \E i \in Cats, j \in Types :
          /\ \A p \in Backends : bk[p].elem = i /\ bk[p].j = j
          /\ shm.message_count[i][j] = 2

\* C6: with no reset, whenever no rotation is in progress, sum_in_buffer is
\* the sum of the values folded by the last min(N, number of rotations)
\* rotations; what was folded N or more rotations ago does not count.
C6_BoundedHistory ==
    AtRest(wk) =>
        \A i \in Cats, j \in Types :
            /\ Len(gh.recent[i][j]) <= RingLength
            /\ shm.sum_in_buffer[i][j] = SeqSum(gh.recent[i][j])

\* C6 witness: N = 3, a bucket of 2 was folded, the ring has cycled and the
\* sum is back to 0.
C6_Witness ==
    /\ wk.pc = "main_wait"
    /\ RingLength = 3
    /\ \E i \in Cats, j \in Types :
          /\ gh.folded[i][j] = 2
          /\ gh.recent[i][j] = <<0, 0, 0>>
          /\ shm.sum_in_buffer[i][j] = 0

\* every counter of the shared memory is zero
AllZero ==
    /\ \A i \in Cats, j \in Types :
          /\ shm.message_count[i][j] = 0
          /\ shm.sum_in_buffer[i][j] = 0
          /\ \A k \in 0 .. RingLength - 1 : shm.intervals[i][j][k] = 0
    /\ \A j \in Types : shm.total_count[j] = 0
    /\ shm.slow_count = 0

\* the session's call of the given name has just returned without error
Returned(name) ==
    /\ bk[Session].pc = "idle"
    /\ bk[Session].op = name
    /\ bk[Session].err = ""

\* C3 (the claim as stated): when pg_log_errors_reset has returned, with
\* nothing else running, every current bucket, every ring slot 0 .. N-1,
\* every sum, every total and the slow counter are zero, for every ring
\* length.
C3_ResetZeroesEverything == (attached /\ Returned("reset")) => AllZero

\* a rotation has made its first access and has not finished its pass
TickMidway == wk.pc \in UpdatePcs /\ ~(wk.pc = "upd_read" /\ wk.i = 0 /\ wk.j = 0)

\* a reset by backend p has made its first access and has not finished
ResetMidway(p) ==
    /\ bk[p].op = "reset"
    /\ bk[p].pc \in InitPcs
    /\ ~(bk[p].pc = "init_count" /\ bk[p].i = 0 /\ bk[p].j = 0)

\* C4 (the claim as stated): no state has a reset in the middle of its
\* zeroing while a rotation is in the middle of its pass.
C4_ResetNeverInterleavesTick == ~(TickMidway /\ \E p \in Backends : ResetMidway(p))

\* the count of the row for type j, entry i and a window of the given
\* seconds, 0 when there is no such row
Reported(rows, j, i, seconds) ==
    LET m == {k \in 1 .. Len(rows) :
                 /\ ~rows[k].time_interval_null
                 /\ rows[k].time_interval = seconds
                 /\ rows[k].type = message_type_names[j + 1]
                 /\ rows[k].message = error_names[i + 1]} IN
    IF m = {} THEN 0 ELSE rows[CHOOSE k \in m : TRUE].count

\* the counts of the total rows for type j
ReportedTotals(rows, j) ==
    {rows[k].count : k \in {k \in 1 .. Len(rows) :
                              /\ rows[k].time_interval_null
                              /\ rows[k].type = message_type_names[j + 1]
                              /\ rows[k].message = "TOTAL"}}

\* C7: in a sequential execution, pg_log_errors_stats called after a rotation
\* reports, per entry and type, a short-window row (interval / 1000 seconds)
\* with the number of events recorded in the bucket the last rotation closed,
\* which is the ring slot before the current index, a long-window row
\* ((interval / 1000) * N seconds) with sum_in_buffer, and a total row with
\* total_count, the number of events of the type since the last zeroing.
C7_ShortLongWindow ==
    (attached /\ Returned("stats") /\ gh.ticked) =>
        LET rows == bk[Session].rows
            short == shm.interval \div 1000
            prev == (shm.current_interval_index + RingLength - 1) % RingLength IN
        /\ \A j \in Types : ReportedTotals(rows, j) = {shm.total_count[j]}
        /\ \A j \in Types : shm.total_count[j] = gh.totalAdds[j]
        /\ \A i \in Cats, j \in Types :
              /\ Reported(rows, j, i, short) = gh.closed[i][j]
              /\ Reported(rows, j, i, short) = shm.intervals[i][j][prev]
              /\ Reported(rows, j, i, short * RingLength) = shm.sum_in_buffer[i][j]

\* C7 witness (scenario A): interval 1000, N = 3, two ERROR events of the
\* registered code, one rotation: short row 2 / 1 s, long row 2 / 3 s,
\* total 2.
C7_Witness ==
    /\ attached /\ Returned("stats") /\ gh.ticked
    /\ shm.interval = 1000 /\ RingLength = 3
    /\ gh.closed[0][1] = 2
    /\ Reported(bk[Session].rows, 1, 0, 1) = 2
    /\ Reported(bk[Session].rows, 1, 0, 3) = 2
    /\ ReportedTotals(bk[Session].rows, 1) = {2}

\* the rows C8 expects for entries i, i+1, ... of type j
RECURSIVE ExpectedEntryRows(_, _)
ExpectedEntryRows(j, i) ==
    IF i = error_types_count THEN <<>>
    ELSE LET long == shm.sum_in_buffer[i][j]
             short == shm.intervals[i][j][(shm.current_interval_index + RingLength - 1)
                                            % RingLength]
             row == [time_interval_null |-> FALSE, time_interval |-> 0,
                     type |-> message_type_names[j + 1],
                     message |-> error_names[i + 1], count |-> 0] IN
         (IF long > 0
          THEN <<[row EXCEPT !.time_interval = (shm.interval \div 1000) * RingLength,
                             !.count = long]>>
          ELSE <<>>)
         \o (IF short > 0
             THEN <<[row EXCEPT !.time_interval = shm.interval \div 1000,
                                !.count = short]>>
             ELSE <<>>)
         \o ExpectedEntryRows(j, i + 1)

\* the rows C8 expects for types j, j+1, ...
RECURSIVE ExpectedRows(_)
ExpectedRows(j) ==
    IF j = message_types_count THEN <<>>
    ELSE <<[time_interval_null |-> TRUE, time_interval |-> 0,
            type |-> message_type_names[j + 1], message |-> "TOTAL",
            count |-> shm.total_count[j]]>>
         \o ExpectedEntryRows(j, 0) \o ExpectedRows(j + 1)

\* C8: pg_log_errors_stats returns, for each type in order, one total row
\* (no time_interval, message TOTAL, count total_count, also when 0), then
\* for each entry in registration order the long-window row if and only if
\* its count is positive, then the short-window row if and only if its count
\* is positive.
C8_RowEmissionAndOrder ==
    (attached /\ Returned("stats")) => bk[Session].rows = ExpectedRows(0)

\* C8 witness: a total row with count 0, an entry with a long row directly
\* followed by its short row, and an entry with a long row and no short row.
C8_Witness ==
    /\ attached /\ Returned("stats")
    /\ LET rows == bk[Session].rows IN
       /\ \E k \in 1 .. Len(rows) : rows[k].message = "TOTAL" /\ rows[k].count = 0
       /\ \E k \in 1 .. Len(rows) - 1 :
             /\ ~rows[k].time_interval_null /\ ~rows[k + 1].time_interval_null
             /\ rows[k].message = rows[k + 1].message
             /\ rows[k].time_interval > rows[k + 1].time_interval
       /\ \E i \in Cats, j \in Types :
             /\ Reported(rows, j, i, (shm.interval \div 1000) * RingLength) > 0
             /\ Reported(rows, j, i, shm.interval \div 1000) = 0

\* the fallback entry
FallbackEntry == CHOOSE i \in Cats : error_names[i + 1] = "NOT_KNOWN_ERROR"

\* C9: a hook call with a code that is not registered adds 1 to the current
\* bucket of the fallback entry for the event's type and 1 to total_count of
\* that type, changes nothing else in shared memory, and raises no error.
C9_UnknownFallback ==
    [][\A p \in Backends :
          (/\ bk[p].pc \in {"hook_count", "hook_total"}
           /\ bk'[p] # bk[p]
           /\ bk[p].edata.sqlerrcode \notin {error_codes[i + 1] : i \in Cats})
          => /\ bk'[p].err = ""
             /\ LET j == CHOOSE j \in Types :
                             message_types_codes[j + 1] = bk[p].edata.elevel IN
                IF bk[p].pc = "hook_count"
                THEN shm' = [shm EXCEPT !.message_count[FallbackEntry][j] = @ + 1]
                ELSE shm' = [shm EXCEPT !.total_count[j] = @ + 1]]_vars

\* C9 witness: a backend with an event of an unregistered code has added to
\* the fallback entry's bucket.
C9_Witness ==
    \E p \in Backends :
        /\ bk[p].pc = "hook_total"
        /\ hash_search(bk[p].edata.sqlerrcode) = NotFound
        /\ shm.message_count[FallbackEntry][bk[p].j] = 1
        /\ \A j \in Types : shm.message_count[0][j] = 0

\* C10: while the shared state is not initialized, pg_log_errors_stats and
\* pg_log_errors_reset fail with the not-initialized error, stats returns no
\* row, pg_slow_log_stats returns no row and no error, and the shared memory
\* stays as it was (untouched).
C10_NotInitialized ==
    ~attached =>
        /\ shm = ZeroShm(RingLength)
        /\ bk[Session].op \in {"stats", "reset"} =>
              bk[Session].err = NotInitialized /\ bk[Session].rows = <<>>
        /\ bk[Session].op = "slow" =>
              bk[Session].err = "" /\ bk[Session].rows = <<>>

\* C10 witness: pg_log_errors_reset has failed before initialization.
C10_Witness ==
    /\ ~attached
    /\ bk[Session].op = "reset"
    /\ bk[Session].err = NotInitialized

\* C11 (the claim as stated): the counters are zeroed once, before use, and
\* afterwards only by pg_log_errors_reset, so an initialization that is
\* neither the first one nor a reset (the worker's, logerrors.c:173) never
\* stores zero over a counter that holds recorded events.
C11_InitializedOnce ==
    (attached /\ wk.op = "main") =>
        /\ wk.pc = "init_count" => shm.message_count[wk.i][wk.j] = 0
        /\ wk.pc = "init_total_memset" => shm.total_count[0] = 0
        /\ wk.pc = "init_total" => shm.total_count[wk.j] = 0
        /\ wk.pc = "init_slow_count" => shm.slow_count = 0

\* C12: pg_slow_log_stats returns one row whose count is the number of slow
\* lines recorded since the counters were last initialized or reset, whatever
\* rotations happened in between, together with the stored reset time;
\* pg_log_errors_reset leaves the count 0 and a reset time not earlier than
\* the time of the call.
C12_SlowCounter ==
    attached =>
        /\ shm.slow_count = gh.slowAdds
        /\ shm.slow_reset_time <= now
        /\ Returned("slow") =>
              bk[Session].rows = <<[slow_count |-> gh.slowAdds,
                                    reset_time |-> shm.slow_reset_time]>>
        /\ Returned("reset") => shm.slow_count = 0 /\ shm.slow_reset_time >= now

\* C12 witness (scenario C): three slow lines, a rotation in between, and
\* pg_slow_log_stats returns 3.
C12_Witness ==
    /\ attached /\ Returned("slow") /\ gh.ticked
    /\ calls.hook = 3
    /\ bk[Session].rows[1].slow_count = 3

\* scenario C, second half: after the reset (made at time 1) the count is 0
\* and the reset time is 1
C12_AfterReset ==
    /\ attached /\ Returned("slow")
    /\ calls.hook = 3 /\ calls.reset = 1
    /\ bk[Session].rows = <<[slow_count |-> 0, reset_time |-> 1]>>

\* C13: current_interval_index is in 0 .. N-1 in every state; it changes
\* only in the last step of a rotation, which sets it to (index + 1) mod N,
\* and a rotation reaches that step only from the last cell (last type, last
\* entry) of its pass.
C13_CurrentIndex ==
    /\ [](shm.current_interval_index \in 0 .. RingLength - 1)
    /\ [][/\ shm'.current_interval_index # shm.current_interval_index =>
                wk.pc = "upd_index" /\ wk' # wk
          /\ (wk.pc = "upd_index" /\ wk' # wk) =>
                /\ shm'.current_interval_index =
                       (shm.current_interval_index + 1) % RingLength
                /\ wk'.pc = "main_wait"
          /\ (wk'.pc = "upd_index" /\ wk.pc # "upd_index") =>
                /\ wk.pc = "upd_zero"
                /\ wk.i = error_types_count - 1
                /\ wk.j = message_types_count - 1]_vars

\* C13 witness: N = 3 and three rotations have completed: the index is back
\* at 0.
C13_Witness ==
    /\ wk.pc = "main_wait"
    /\ RingLength = 3
    /\ Len(gh.recent[0][0]) = 3
    /\ shm.current_interval_index = 0

\* C14: in every interleaving with hook calls and rotations, no step of
\* pg_log_errors_stats (nor of pg_slow_log_stats), from the call to the
\* return, changes any field of the shared memory, and every such step can
\* be taken whatever the other processes are doing (the call never waits).
C14_SnapshotReadOnly ==
    /\ [](\A p \in Backends :
             bk[p].pc \in StatsPcs \cup SlowPcs => ENABLED BackendStep(p))
    /\ [][\A p \in Backends :
             (/\ bk'[p] # bk[p]
              /\ \/ bk[p].pc \in StatsPcs \cup SlowPcs
                 \/ bk[p].pc = "idle" /\ bk'[p].op \in {"stats", "slow"})
             => shm' = shm]_vars

\* C14 witness: a snapshot is between two of its reads while a rotation is
\* in the middle of its pass and a hook call is between its two increments.
C14_Witness ==
    /\ bk["b2"].pc = "st_short"
    /\ bk["b2"].rows # <<>>
    /\ TickMidway
    /\ bk["b1"].pc = "hook_total"

\* C15 (the claim as stated): once SIGTERM is delivered the worker
\* eventually exits, and when its loop wakes with the signal delivered it
\* first makes one more rotation, so it never exits from the wait itself.
C15_FinalPassBeforeExit ==
    /\ got_sigterm ~> wk.pc = "exited"
    /\ [][(wk.pc = "main_wait" /\ got_sigterm /\ wk' # wk) =>
              wk'.pc = "upd_read"]_vars

\* C15 (amended): once SIGTERM is delivered the worker eventually exits; it
\* completes a rotation that is in progress, and when its loop wakes with
\* the signal delivered it exits without a further rotation, leaving the
\* open buckets as they are.
C15_ExitWithoutFinalPass ==
    /\ got_sigterm ~> wk.pc = "exited"
    /\ [][/\ (wk.pc = "main_wait" /\ got_sigterm /\ wk' # wk) =>
                wk'.pc = "exited" /\ shm' = shm
          /\ (wk.pc \in UpdatePcs /\ wk' # wk) =>
                wk'.pc \in UpdatePcs \cup {"main_wait"}
          /\ wk.pc = "exited" => wk' = wk]_vars

\* C15 witness: the signal was delivered while the worker was waiting, the
\* worker has exited and an event recorded before the signal is still in
\* its open bucket, in no ring slot.
C15_Witness ==
    /\ got_sigterm
    /\ wk.pc = "exited"
    /\ ~gh.ticked
    /\ \A p \in Backends : bk[p].pc = "idle"
    /\ shm.message_count[0][1] = 1
    /\ shm.sum_in_buffer[0][1] = 0

\* the fields of the ring: every slot, every sum and the current index
Ring(s) == <<s.intervals, s.sum_in_buffer, s.current_interval_index>>

\* C16: a step of a hook call leaves every ring slot, every sum_in_buffer
\* and current_interval_index unchanged: it changes only message_count of
\* the resolved entry for the event's type, total_count of that type or the
\* slow counter, each by +1; the ring changes only in steps of the rotation
\* (or of logerrors_init).
C16_RingSingleWriter ==
    [][/\ \A p \in Backends :
             (bk[p].pc \in HookPcs /\ bk'[p] # bk[p]) =>
                 /\ Ring(shm') = Ring(shm)
                 /\ \/ shm' = [shm EXCEPT !.message_count[bk[p].elem][bk[p].j] = @ + 1]
                    \/ shm' = [shm EXCEPT !.total_count[bk[p].j] = @ + 1]
                    \/ shm' = [shm EXCEPT !.slow_count = @ + 1]
       /\ Ring(shm') # Ring(shm) =>
             wk' # wk /\ wk.pc \in UpdatePcs \cup InitPcs]_vars

\* C16 witness: a hook call is between its increments while the ring holds
\* a folded bucket and the rotation is in the middle of a pass.
C16_Witness ==
    /\ \E p \in Backends : bk[p].pc = "hook_total"
    /\ TickMidway
    /\ \E i \in Cats, j \in Types : shm.sum_in_buffer[i][j] > 0

\* C17: no step of the rotation changes total_count or the slow counter, and
\* total_count of every type is the number of events of that type recorded
\* since the counters were last initialized, however many rotations and
\* evictions there were.
C17_TotalUnaffectedByRotation ==
    /\ [](\A j \in Types : shm.total_count[j] = gh.totalAdds[j])
    /\ [][(wk.pc \in UpdatePcs /\ wk' # wk) =>
              /\ shm'.total_count = shm.total_count
              /\ shm'.slow_count = shm.slow_count]_vars

\* C17 witness: an event was recorded, folded into the ring and evicted
\* again (every bucket, slot and sum of its type is 0), and total_count
\* still counts it.
C17_Witness ==
    /\ wk.pc = "main_wait"
    /\ \E i \in Cats, j \in Types :
          /\ shm.total_count[j] = 1
          /\ gh.folded[i][j] = 1
          /\ shm.message_count[i][j] = 0
          /\ shm.sum_in_buffer[i][j] = 0

\* C18 (the claim as stated): sum_in_buffer of every entry and type is never
\* negative, also when pg_log_errors_reset runs while a rotation is in
\* progress and events are being recorded.
C18_RollingSumNonNegative ==
    \A i \in Cats, j \in Types : shm.sum_in_buffer[i][j] >= 0

\* the long-window and short-window counts that pg_log_errors_stats is about
\* to compare at lines 440 and 443, for the cell it is at
LongRead(l) == l.errors_in_long_interval

ShortRead(s, l) == s.intervals[l.i][l.j][l.prev_interval_index]

\* C19 (the claim as stated): whenever pg_log_errors_stats has read the long
\* count of a cell and reads the short count, the short count does not
\* exceed the long one, also while hook calls and rotations run (no reset).
C19_ShortAtMostLong ==
    \A p \in Backends :
        bk[p].pc = "st_short" => ShortRead(shm, bk[p]) <= LongRead(bk[p])

\* C20: when pg_log_errors_reset has returned, current_interval_index is 0;
\* the first rotation after a reset stores every open bucket into ring slot
\* 0 and changes no other slot; and pg_log_errors_stats called between the
\* reset and that rotation reports as short-window count of every entry and
\* type the content of ring slot N-1.
C20_ResetRewindsIndex ==
    /\ []((attached /\ Returned("reset")) => shm.current_interval_index = 0)
    /\ []((attached /\ Returned("stats") /\ calls.reset > 0 /\ ~gh.ticked) =>
             \A i \in Cats, j \in Types :
                 Reported(bk[Session].rows, j, i, shm.interval \div 1000) =
                     shm.intervals[i][j][RingLength - 1])
    /\ [][(calls.reset > 0 /\ ~gh.ticked /\ gh'.ticked) =>
             \A i \in Cats, j \in Types :
                 shm'.intervals[i][j] =
                     [shm.intervals[i][j] EXCEPT ![0] = shm.message_count[i][j]]]_vars

\* C20 witness: N = 91; after a reset and before the next rotation,
\* pg_log_errors_stats reports a short-window count of 1, read from ring
\* slot 90.
C20_Witness ==
    /\ attached /\ Returned("stats") /\ calls.reset > 0 /\ ~gh.ticked
    /\ shm.current_interval_index = 0
    /\ shm.intervals[0][1][RingLength - 1] = 1
    /\ Reported(bk[Session].rows, 1, 0, shm.interval \div 1000) = 1

\* the event's message contains the slow marker
HasSlowMarker(edata) ==
    edata.message # NoMessage /\ "duration:" \in {edata.message[k] : k \in DOMAIN edata.message}

\* the event's severity is one of the tracked types
IsTracked(edata) == edata.elevel \in {message_types_codes[j + 1] : j \in Types}

====
